---- MODULE Spec2Model ----
(***************************************************************************)
(* NutriSleuth: the health-analysis flow generateHealthAnalysisFlow of     *)
(* src/src/ai/flows/generate-health-analysis.ts and the product-search     *)
(* flow semanticProductSearchFlow of                                       *)
(* src/src/ai/flows/semantic-product-search.ts, and the page              *)
(* NutriSleuthPage of src/unnamed/part_000 that calls them, as a state     *)
(* machine.                                                                *)
(*                                                                         *)
(* One run of one flow handler is modelled.  A handler is an async         *)
(* function: it runs from one await of a backend call to the next, so      *)
(* there is one action per such stretch of code.  What a backend answers   *)
(* is the environment's choice, drawn from the sets below.                 *)
(*                                                                         *)
(* A JavaScript string is a sequence of string tokens (the empty string is *)
(* <<>>), so that template literals are concatenations and startsWith is a *)
(* prefix test.  A JavaScript object is a function from the keys it has to *)
(* their values; a key whose value is undefined is not in the domain.      *)
(***************************************************************************)
EXTENDS Integers, Sequences, FiniteSets, TLC

VARIABLES
    pc,        \* where the handler is: idle, an await, or done
    input,     \* the HealthAnalysisInput of the run
    requests,  \* the backend calls issued so far, in order
    inFlight,  \* backend calls issued and not yet settled
    attempts,  \* what each settled backend call answered, in order
    outcome,   \* the promise of generateHealthAnalysis: pending, resolved, rejected
    path,      \* which return statement produced the result
    result,    \* the HealthAnalysisOutput the promise resolved to
    searchPc,        \* where the search handler is: idle, an await, or done
    searchInput,     \* the SemanticProductSearchInput of the run
    searchRequests,  \* the backend calls the search handler issued, in order
    searchAttempts,  \* what each settled backend call of the search answered
    searchOutcome,   \* the promise of semanticProductSearch
    searchResult,    \* the SemanticProductSearchOutput the promise resolved to
    isLoading,       \* page state: a form submission is being handled
    isAnalyzing,     \* page state: a selected product is being analysed
    errorMessage,    \* page state: the message shown, or null
    searchResults,   \* page state: the list of products found, or null
    selectedProductForAnalysis,  \* page state: the label of what is analysed, or null
    healthAnalysis,  \* page state: the report shown, or null
    handlers         \* the handler calls of the page, in the order they started

analysisVars == <<pc, input, requests, inFlight, attempts, outcome, path, result>>

searchVars ==
    <<searchPc, searchInput, searchRequests, searchAttempts, searchOutcome, searchResult>>

pageVars ==
    <<isLoading, isAnalyzing, errorMessage, searchResults, selectedProductForAnalysis,
      healthAnalysis, handlers>>

vars == <<analysisVars, searchVars, pageVars>>

(***************************************************************************)
(* Bounds of the model.                                                    *)
(***************************************************************************)
MaxIngredients == 1   \* longest ingredientAnalysis list a backend returns
MaxSources == 1       \* longest sources list a backend returns
MaxResults == 2       \* longest searchResults list a backend returns
MaxStarts == 3        \* handler calls of the page in one behaviour

(***************************************************************************)
(* JavaScript helpers.                                                     *)
(***************************************************************************)
EmptyObj == [k \in {} |-> 0]

Has(o, k) == k \in DOMAIN o

\* o.k || d for a string field: undefined and '' are falsy
OrText(o, k, d) == IF Has(o, k) /\ o[k] # <<>> THEN o[k] ELSE d

\* o.k || d for a number field: undefined and 0 are falsy
OrNum(o, k, d) == IF Has(o, k) /\ o[k] # 0 THEN o[k] ELSE d

\* o.k || d for an array field: every array, the empty one too, is truthy
OrList(o, k, d) == IF Has(o, k) THEN o[k] ELSE d

\* { ...(v !== undefined ? {k: v} : {}) }
Field(o, k) == IF Has(o, k) THEN k :> o[k] ELSE EmptyObj

\* String.prototype.startsWith
StartsWith(s, p) == Len(s) >= Len(p) /\ SubSeq(s, 1, Len(p)) = p

\* String.prototype.toLowerCase on the tokens the model uses
LowerToken(t) == IF t \in {"India", "INDIA"} THEN "india" ELSE t

ToLowerCase(s) == [i \in 1..Len(s) |-> LowerToken(s[i])]

\* all sequences over S of length 0..n
RECURSIVE SeqsUpTo(_, _)
SeqsUpTo(S, n) ==
    IF n = 0 THEN {<<>>}
    ELSE LET shorter == SeqsUpTo(S, n - 1)
         IN  shorter \cup {Append(s, x) : s \in {t \in shorter : Len(t) = n - 1}, x \in S}

(***************************************************************************)
(* HealthAnalysisInputSchema: the requests.                                *)
(***************************************************************************)
HostedProviders == {"gemini", "openai", "anthropic"}

SupportedProviders == {"ollama"} \cup HostedProviders

\* "mistral" stands for a provider key outside the enum, which reaches the
\* handler only when the flow is called without schema validation
Providers == SupportedProviders \cup {"mistral"}

RegionHints == {<<"India">>}

\* the model name typed by the user; the field may be left empty
OllamaModelNames == {<<"llama3">>, <<>>}

ProductInfos == {<<"Maggi Noodles">>}

\* texts holding character sequences that String.prototype.replace or the prompt
\* template treat specially; they are drawn for ollama, the one provider whose
\* prompt the flow renders itself
SpecialProductInfos ==
    { <<"Masala chips, ", "$$", "2 a pack">>,
      <<"$&">>,
      <<"{{{userRegionHint}}}">>,
      <<"{{#if userRegionHint}}">> }

SpecialRegionHints == {<<>>, <<"$&">>, <<"US (", "$$", ")">>}

HostedInputs ==
    { [aiServiceProvider |-> p, productInfo |-> i] @@ h @@ m :
        p \in Providers \ {"ollama"}, i \in ProductInfos,
        h \in {EmptyObj} \cup {("userRegionHint" :> r) : r \in RegionHints},
        m \in {EmptyObj} \cup {("ollamaModelName" :> n) : n \in OllamaModelNames} }

OllamaInputs ==
    { [aiServiceProvider |-> "ollama", productInfo |-> i] @@ h @@ m :
        i \in ProductInfos \cup SpecialProductInfos,
        h \in {EmptyObj}
                \cup {("userRegionHint" :> r) : r \in RegionHints \cup SpecialRegionHints},
        m \in {EmptyObj} \cup {("ollamaModelName" :> n) : n \in OllamaModelNames} }

Inputs == HostedInputs \cup OllamaInputs

(***************************************************************************)
(* JavaScript values where their type is tested (typeof, null checks).     *)
(***************************************************************************)
JsNull == [t |-> "null"]

JsObj(o) == [t |-> "object", v |-> o]

JsStr(s) == [t |-> "string", v |-> s]

JsNum(n) == [t |-> "number", v |-> n]

\* typeof x: null has type 'object'
TypeOf(x) == IF x.t = "null" THEN "object" ELSE x.t

(***************************************************************************)
(* HealthAnalysisOutputSchema and the objects a backend may produce.       *)
(***************************************************************************)
\* the keys of HealthAnalysisOutputSchema, in the order it declares them
FieldOrder ==
    << "summary", "detectedRegion", "ingredientAnalysis", "packagingAnalysis",
       "preservativesAndAdditivesAnalysis", "breakdown", "regulatoryStatus",
       "regionalVariations", "overallWarning", "confidenceScore", "sources",
       "overallRiskScore", "overallRiskLevel", "healthierAlternatives",
       "corporatePracticesNote", "consumerRightsTip", "estimatedNutriScore" >>

RequiredKeys ==
    { "summary", "ingredientAnalysis", "packagingAnalysis",
      "preservativesAndAdditivesAnalysis", "breakdown", "regulatoryStatus",
      "confidenceScore", "sources" }

NumberKeys == {"confidenceScore", "overallRiskScore"}

TextListKeys == {"sources", "healthierAlternatives"}

ObjectListKeys == {"ingredientAnalysis", "regionalVariations"}

\* z.number().min(0).max(100) and z.number().min(1).max(5).optional()
HealthAnalysisOutputSchema(o) ==
    /\ RequiredKeys \subseteq DOMAIN o
    /\ o["confidenceScore"] >= 0 /\ o["confidenceScore"] <= 100
    /\ Has(o, "overallRiskScore") =>
           (o["overallRiskScore"] >= 1 /\ o["overallRiskScore"] <= 5)

\* HealthAnalysisOutputSchema.safeParse(x).success
SafeParseSuccess(x) == x.t = "object" /\ HealthAnalysisOutputSchema(x.v)

IngredientDetail ==
    [ name |-> <<"Palm oil">>, description |-> <<"Frying fat">>,
      healthEffects |-> <<"Raises LDL cholesterol">>, safetyLevel |-> <<"Limit Intake">> ]

SummaryTexts == {<<>>, <<"Instant noodles high in sodium.">>}

IngredientLists == SeqsUpTo({IngredientDetail}, MaxIngredients)

SourceLists == SeqsUpTo({<<"FSSAI guidelines">>}, MaxSources)

OtherTexts ==
    [ packagingAnalysis |-> <<"Plastic wrapper.">>,
      preservativesAndAdditivesAnalysis |-> <<"Contains E635.">>,
      breakdown |-> <<"Refined flour and fat.">>,
      regulatoryStatus |-> <<"FSSAI approved.">> ]

\* objects that vary the fields the flow inspects; the other required texts are there
ProductObjects ==
    { OtherTexts @@ s @@ i @@ c @@ r :
        s \in {EmptyObj} \cup {("summary" :> x) : x \in SummaryTexts},
        i \in {EmptyObj} \cup {("ingredientAnalysis" :> x) : x \in IngredientLists},
        c \in {("confidenceScore" :> x) : x \in {0, 75}},
        r \in {EmptyObj} \cup {("sources" :> x) : x \in SourceLists} }

CompleteObject ==
    OtherTexts @@
    [ summary |-> <<"Instant noodles high in sodium.">>,
      ingredientAnalysis |-> <<IngredientDetail>>,
      confidenceScore |-> 75,
      sources |-> << <<"FSSAI guidelines">> >> ]

Without(o, k) == [x \in DOMAIN o \ {k} |-> o[x]]

\* objects with other keys missing, out of range, or with optional keys set
SpecialObjects ==
    { EmptyObj,
      [summary |-> <<"Instant noodles high in sodium.">>],
      [ingredientAnalysis |-> <<IngredientDetail>>, confidenceScore |-> 40],
      Without(CompleteObject, "packagingAnalysis"),
      Without(CompleteObject, "confidenceScore"),
      ("confidenceScore" :> 101) @@ CompleteObject,
      ("overallRiskScore" :> 3) @@ CompleteObject,
      ("overallRiskScore" :> 6) @@ CompleteObject,
      ("detectedRegion" :> <<"India">>) @@ CompleteObject,
      ("consumerRightsTip" :> <<"Check the label.">>) @@ ("detectedRegion" :> <<"India">>)
          @@ CompleteObject,
      ("detectedRegion" :> <<"EU">>) @@ ("consumerRightsTip" :> <<"Check the label.">>)
          @@ Without(CompleteObject, "summary") }

BackendObjects == ProductObjects \cup SpecialObjects

(***************************************************************************)
(* JSON text.  JSON.stringify writes a value as tokens; JSON.parse reads a *)
(* text back to the value it is the text of, and fails on any other text.  *)
(***************************************************************************)
Quoted(s) == <<"\"">> \o s \o <<"\"">>

RECURSIVE JoinTexts(_)
JoinTexts(list) ==
    IF list = <<>> THEN <<>>
    ELSE Quoted(Head(list)) \o <<",">> \o JoinTexts(Tail(list))

StringifyIngredient(d) ==
    <<"{", "name", ":">> \o Quoted(d.name) \o <<",", "description", ":">>
        \o Quoted(d.description) \o <<",", "healthEffects", ":">>
        \o Quoted(d.healthEffects) \o <<",", "safetyLevel", ":">>
        \o Quoted(d.safetyLevel) \o <<"}">>

RECURSIVE JoinIngredients(_)
JoinIngredients(list) ==
    IF list = <<>> THEN <<>>
    ELSE StringifyIngredient(Head(list)) \o <<",">> \o JoinIngredients(Tail(list))

StringifyField(k, v) ==
    <<k, ":">> \o
    ( IF k \in NumberKeys THEN <<ToString(v)>>
      ELSE IF k \in TextListKeys THEN <<"[">> \o JoinTexts(v) \o <<"]">>
      ELSE IF k \in ObjectListKeys THEN <<"[">> \o JoinIngredients(v) \o <<"]">>
      ELSE Quoted(v) ) \o <<",">>

RECURSIVE StringifyFields(_, _)
StringifyFields(o, i) ==
    IF i > Len(FieldOrder) THEN <<>>
    ELSE (IF Has(o, FieldOrder[i]) THEN StringifyField(FieldOrder[i], o[FieldOrder[i]]) ELSE <<>>)
         \o StringifyFields(o, i + 1)

\* JSON.stringify of a value of the analysis payload
JSONStringify(x) ==
    IF x.t = "null" THEN <<"null">>
    ELSE IF x.t = "number" THEN <<ToString(x.v)>>
    ELSE IF x.t = "string" THEN Quoted(x.v)
    ELSE <<"{">> \o StringifyFields(x.v, 1) \o <<"}">>

\* the JSON values a payload text may hold
JsonValues == {JsNull, JsNum(42)} \cup {JsObj(o) : o \in BackendObjects}

\* the JSON text of each of these values
JsonTexts == [x \in JsonValues |-> JSONStringify(x)]

\* JSON.parse: ok with the value, or a SyntaxError
JSONParse(s) ==
    IF \E x \in JsonValues : JsonTexts[x] = s
    THEN [ok |-> TRUE, value |-> CHOOSE x \in JsonValues : JsonTexts[x] = s]
    ELSE [ok |-> FALSE]

\* a model answer that is prose, not JSON
NotJson == <<"Sure! Here is the analysis you asked for.">>

(***************************************************************************)
(* What the backends answer.                                               *)
(***************************************************************************)
\* the message of an Error a backend call rejects with ('' too)
ErrorMessages == {<<"fetch failed">>, <<>>}

\* genkitPromptDefinition(promptData, {model}): rejects, or resolves to {output},
\* where output is null or an object
GenkitResponses ==
    {[kind |-> "throw", message |-> m] : m \in ErrorMessages}
        \cup {[kind |-> "output", output |-> JsNull]}
        \cup {[kind |-> "output", output |-> JsObj(o)] : o \in BackendObjects}

\* the parsed body of the local endpoint's answer (ollamaResult)
OllamaResults ==
    {("response" :> JsStr(JSONStringify(x))) : x \in JsonValues}
        \cup {("response" :> JsObj(o)) : o \in BackendObjects}
        \cup {("message" :> ("content" :> JsStr(JSONStringify(x)))) : x \in JsonValues}
        \cup { EmptyObj,
               ("response" :> JsNull),
               ("response" :> JsNum(42)),
               ("response" :> JsStr(<<>>)),
               ("response" :> JsStr(NotJson)),
               ("message" :> EmptyObj),
               ("message" :> ("content" :> JsStr(<<>>))),
               ("message" :> ("content" :> JsNum(42))),
               ("message" :> ("content" :> JsStr(NotJson))),
               ("response" :> JsNum(42))
                   @@ ("message" :> ("content" :> JsStr(JSONStringify(JsObj(CompleteObject))))),
               ("response" :> JsNull)
                   @@ ("message" :> ("content" :> JsStr(JSONStringify(JsObj(CompleteObject))))),
               ("response" :> JsStr(NotJson))
                   @@ ("message" :> ("content" :> JsStr(JSONStringify(JsObj(CompleteObject))))) }

\* fetch(...): rejects, or resolves to a response with a status and a body
FetchOutcomes ==
    {[kind |-> "reject", message |-> m] : m \in ErrorMessages}
        \cup {[kind |-> "http", ok |-> FALSE, status |-> 500, text |-> <<"model not found">>]}
        \cup {[kind |-> "http", ok |-> TRUE, status |-> 200, json |-> [ok |-> FALSE]]}
        \cup {[kind |-> "http", ok |-> TRUE, status |-> 200, json |-> [ok |-> TRUE, value |-> JsNull]]}
        \cup {[kind |-> "http", ok |-> TRUE, status |-> 200, json |-> [ok |-> TRUE, value |-> JsObj(r)]] :
                 r \in OllamaResults}

\* JSON.stringify(ollamaResult)
StringifyOllamaResult(r) ==
    <<"{">>
        \o (IF Has(r, "response")
            THEN <<"response", ":">> \o JSONStringify(r["response"]) \o <<",">> ELSE <<>>)
        \o (IF Has(r, "message")
            THEN <<"message", ":", "{">>
                 \o (IF Has(r["message"], "content")
                     THEN <<"content", ":">> \o JSONStringify(r["message"]["content"]) ELSE <<>>)
                 \o <<"}">>
            ELSE <<>>)
        \o <<"}">>

(***************************************************************************)
(* The prompt of the ollama branch.  A text is a sequence of tokens; the   *)
(* character sequences that the template syntax and String.prototype       *)
(* .replace give a meaning to are tokens of their own.                     *)
(***************************************************************************)
\* basePromptTemplate: its only placeholders are on the two lines after the preamble
basePromptTemplate ==
    << "You are an expert AI assistant specializing in providing comprehensive, detailed, culturally-aware, and unbiased health analysis of food products. [...]\n\n",
       "Product Information: ", "{{{productInfo}}}", "\n",
       "{{#if userRegionHint}}", "User's Region Hint: ", "{{{userRegionHint}}}", "{{/if}}",
       "\n\nPrimary Task: Analyze the provided product information [...] Ensure all new fields are populated thoughtfully.\n" >>

\* one token of a replacement string: $$ inserts a "$", $& inserts the matched text
ExpandToken(t, matched) ==
    IF t = "$$" THEN <<"$">>
    ELSE IF t = "$&" THEN <<matched>>
    ELSE <<t>>

\* the text a replacement string stands for
RECURSIVE ExpandReplacement(_, _)
ExpandReplacement(repl, matched) ==
    IF repl = <<>> THEN <<>>
    ELSE ExpandToken(Head(repl), matched) \o ExpandReplacement(Tail(repl), matched)

\* s.replace(new RegExp(pattern, 'g'), repl): every occurrence is replaced, and the
\* inserted text is not scanned again
RECURSIVE ReplaceAll(_, _, _)
ReplaceAll(s, pattern, repl) ==
    IF s = <<>> THEN <<>>
    ELSE (IF Head(s) = pattern THEN ExpandReplacement(repl, pattern) ELSE <<Head(s)>>)
             \o ReplaceAll(Tail(s), pattern, repl)

\* String.prototype.indexOf, counted from 1; 0 when the token does not occur
IndexOf(s, t) ==
    IF \E i \in 1..Len(s) : s[i] = t
    THEN CHOOSE i \in 1..Len(s) : s[i] = t /\ \A j \in 1..(i - 1) : s[j] # t
    ELSE 0

\* s.replace(pattern, repl) with a string pattern: the first occurrence only
ReplaceFirst(s, pattern, repl) ==
    LET i == IndexOf(s, pattern)
    IN  IF i = 0 THEN s
        ELSE SubSeq(s, 1, i - 1) \o ExpandReplacement(repl, pattern)
                 \o SubSeq(s, i + 1, Len(s))

\* result.replace(/{{#if userRegionHint}}([\s\S]*?){{\/if}}/g, ...): each block, from
\* an opening tag to the nearest closing tag, is replaced by its inner text with
\* the hint filled in (keep) or by nothing
RECURSIVE ReplaceBlocks(_, _, _)
ReplaceBlocks(s, keep, hint) ==
    LET i == IndexOf(s, "{{#if userRegionHint}}")
        rest == SubSeq(s, i + 1, Len(s))
        j == IndexOf(rest, "{{/if}}")
    IN  IF i = 0 \/ j = 0 THEN s
        ELSE SubSeq(s, 1, i - 1)
                 \o (IF keep
                     THEN ReplaceFirst(SubSeq(rest, 1, j - 1), "{{{userRegionHint}}}", hint)
                     ELSE <<>>)
                 \o ReplaceBlocks(SubSeq(rest, j + 1, Len(rest)), keep, hint)

\* fillPromptTemplate(template, {productInfo, userRegionHint}): the keys are filled
\* in that order, a key whose value is undefined is skipped
fillPromptTemplate(template, data) ==
    LET withInfo == ReplaceAll(template, "{{{productInfo}}}", data["productInfo"])
        withHint == IF Has(data, "userRegionHint")
                    THEN ReplaceAll(withInfo, "{{{userRegionHint}}}", data["userRegionHint"])
                    ELSE withInfo
        truthy == Has(data, "userRegionHint") /\ data["userRegionHint"] # <<>>
    IN  ReplaceBlocks(withHint, truthy, IF truthy THEN data["userRegionHint"] ELSE <<>>)

\* promptData of the handler
PromptData(inp) == ("productInfo" :> inp["productInfo"]) @@ Field(inp, "userRegionHint")

\* finalOllamaPrompt: the rendered template and the JSON instruction after it
FinalOllamaPrompt(inp) ==
    fillPromptTemplate(basePromptTemplate, PromptData(inp))
        \o <<"\\n\\nIMPORTANT: Your entire response MUST be a single, valid JSON object [...]">>

(***************************************************************************)
(* generateHealthAnalysisFlow: the pieces of the handler.                  *)
(* A stretch of the handler ends in a step: a backend call (kind "call"),  *)
(* a return statement (kind "return") or a thrown Error (kind "throw").    *)
(***************************************************************************)
Throw(m) == [kind |-> "throw", message |-> m]

Return(p, v) == [kind |-> "return", path |-> p, value |-> v]

Call(next, req) == [kind |-> "call", pc |-> next, request |-> req]

\* confidenceScore given to an Ollama answer that reports none above 0
DefaultConfidence == 60

\* modelIdentifier of the ollama branch: ollamaModelName || 'qwen3:8b'
OllamaModelIdentifier(inp) == OrText(inp, "ollamaModelName", <<"qwen3:8b">>)

\* serviceName of the ollama branch
OllamaServiceName(inp) == <<"Ollama (">> \o OllamaModelIdentifier(inp) \o <<")">>

\* a switch that sends every hosted provider to the gemini model
HostedModelIdentifier_AlwaysGemini(provider) ==
    IF provider \in {"gemini", "openai", "anthropic"}
    THEN <<"googleai", "/", "gemini-2.0-flash">>
    ELSE <<>>

\* the switch on aiServiceProvider; <<>> stands for its default case
HostedModelIdentifier(provider) ==
    CASE provider = "gemini" -> <<"googleai", "/", "gemini-2.0-flash">>
      [] provider = "openai" -> <<"openai", "/", "gpt-3.5-turbo">>
      [] provider = "anthropic" -> <<"anthropic", "/", "claude-3-haiku-20240307">>
      [] OTHER -> <<>>

\* serviceName of the hosted branch: `${aiServiceProvider} (${modelIdentifier.split('/')[1]})`
HostedServiceName(provider) ==
    <<provider, " (", HostedModelIdentifier(provider)[3], ")">>

\* a catch block that names the Ollama model whatever the provider is
ServiceDetail_AlwaysModel(inp) ==
    <<"Ollama (">> \o OrText(inp, "ollamaModelName", <<"default">>) \o <<")">>

\* a catch block that leaves the provider out of its messages
ServiceDetail_Blank(inp) == <<>>

\* serviceDetail of the catch block
ServiceDetail(inp) ==
    IF inp.aiServiceProvider = "ollama"
    THEN <<"Ollama (">> \o OrText(inp, "ollamaModelName", <<"default">>) \o <<")">>
    ELSE <<inp.aiServiceProvider>>

ErrorMarker == <<"AI service error (">>

\* the object the catch block returns
ErrorResult(inp, message) ==
    [ summary |-> ErrorMarker \o ServiceDetail(inp) \o <<"): ">>
                    \o (IF message # <<>> THEN message
                        ELSE <<"Unknown error during health analysis.">>),
      ingredientAnalysis |-> <<>>,
      packagingAnalysis |-> <<"Not available due to error.">>,
      preservativesAndAdditivesAnalysis |-> <<"Not available due to error.">>,
      breakdown |-> <<"Analysis incomplete due to an error.">>,
      regulatoryStatus |-> <<"Status not available.">>,
      confidenceScore |-> 0,
      sources |-> << <<"Error in processing">> >>,
      detectedRegion |-> OrText(inp, "userRegionHint", <<"Error">>),
      regionalVariations |-> <<>>,
      overallWarning |-> <<"Analysis could not be performed due to an internal error with ">>
                            \o ServiceDetail(inp) \o <<".">>,
      overallRiskLevel |-> <<"Error">>,
      healthierAlternatives |-> <<>>,
      corporatePracticesNote |-> <<"Not available due to error.">>,
      consumerRightsTip |-> <<"Not available due to error.">> ]

\* a handler whose catch block lets the Error through
TryCatch_Rethrow(inp, step) ==
    IF step.kind = "throw"
    THEN [outcome |-> "rejected", path |-> "error", value |-> EmptyObj]
    ELSE [outcome |-> "resolved", path |-> step.path, value |-> step.value]

\* try { ... } catch (error) { return {...} }: what the promise settles to
TryCatch(inp, step) ==
    IF step.kind = "throw"
    THEN [outcome |-> "resolved", path |-> "error", value |-> ErrorResult(inp, step.message)]
    ELSE [outcome |-> "resolved", path |-> step.path, value |-> step.value]

\* a handler that sends every key it does not know to the local endpoint
StartStep_DefaultOllama(inp) ==
    IF HostedModelIdentifier(inp.aiServiceProvider) = <<>>
    THEN Call("awaitOllama",
              [ adapter |-> "fetch", url |-> <<"http://localhost:11434/api/generate">>,
                model |-> OllamaModelIdentifier(inp) ])
    ELSE Call("awaitFirst",
              [adapter |-> "genkit", model |-> HostedModelIdentifier(inp.aiServiceProvider)])

\* from the start of the handler to its first await
StartStep(inp) ==
    IF inp.aiServiceProvider = "ollama"
    THEN Call("awaitOllama",
              [ adapter |-> "fetch", url |-> <<"http://localhost:11434/api/generate">>,
                model |-> OllamaModelIdentifier(inp),
                prompt |-> FinalOllamaPrompt(inp) ])
    ELSE IF HostedModelIdentifier(inp.aiServiceProvider) = <<>>
    THEN Throw(<<"Unsupported AI service provider: ", inp.aiServiceProvider>>)
    ELSE Call("awaitFirst",
              [adapter |-> "genkit", model |-> HostedModelIdentifier(inp.aiServiceProvider)])

\* an envelope handling that does not know the message.content envelope
OllamaExtract_NoContent(r) ==
    IF Has(r, "response") /\ TypeOf(r["response"]) = "string"
    THEN IF JSONParse(r["response"].v).ok
         THEN [ok |-> TRUE, value |-> JSONParse(r["response"].v).value]
         ELSE [ok |-> FALSE, message |-> <<"not valid JSON">>]
    ELSE IF Has(r, "response") /\ TypeOf(r["response"]) = "object"
    THEN [ok |-> TRUE, value |-> r["response"]]
    ELSE [ok |-> FALSE, message |-> <<"not a JSON string or expected object">>]

\* an envelope handling that looks at message.content before response
OllamaExtract_ContentFirst(r) ==
    IF /\ Has(r, "message")
       /\ Has(r["message"], "content")
       /\ r["message"]["content"].t = "string"
       /\ r["message"]["content"].v # <<>>
    THEN IF JSONParse(r["message"]["content"].v).ok
         THEN [ok |-> TRUE, value |-> JSONParse(r["message"]["content"].v).value]
         ELSE [ok |-> FALSE, message |-> <<"not valid JSON">>]
    ELSE OllamaExtract_NoContent(r)

\* the three envelopes of the local endpoint: the extracted outputJson, or an Error
OllamaExtract(r) ==
    IF Has(r, "response") /\ TypeOf(r["response"]) = "string"
    THEN IF JSONParse(r["response"].v).ok
         THEN [ok |-> TRUE, value |-> JSONParse(r["response"].v).value]
         ELSE [ok |-> FALSE,
               message |-> <<"Ollama returned a string in 'response' that is not valid JSON. Content: ">>
                              \o r["response"].v]
    ELSE IF Has(r, "response") /\ TypeOf(r["response"]) = "object"
    THEN [ok |-> TRUE, value |-> r["response"]]
    ELSE IF /\ Has(r, "message")
            /\ Has(r["message"], "content")
            /\ r["message"]["content"].t = "string"
            /\ r["message"]["content"].v # <<>>
    THEN IF JSONParse(r["message"]["content"].v).ok
         THEN [ok |-> TRUE, value |-> JSONParse(r["message"]["content"].v).value]
         ELSE [ok |-> FALSE,
               message |-> <<"Ollama returned a string in 'message.content' that is not valid JSON. Content: ">>
                              \o r["message"]["content"].v]
    ELSE [ok |-> FALSE,
          message |-> <<"Ollama response field is not a JSON string or expected object. Full response: ">>
                         \o StringifyOllamaResult(r)]

\* the object the ollama branch returns from validatedOutput.data
OllamaNormalize(inp, data) ==
    ("confidenceScore" :> (IF data["confidenceScore"] > 0 THEN data["confidenceScore"]
                           ELSE DefaultConfidence))
        @@ ("sources" :> (IF Len(data["sources"]) > 0 THEN data["sources"]
                          ELSE <<OllamaServiceName(inp)>>))
        @@ data

\* from the settling of fetch to the end of the ollama branch
OllamaStep(inp, f) ==
    IF f.kind = "reject" THEN Throw(f.message)
    ELSE IF ~f.ok
    THEN Throw(<<"Ollama API request failed: ", ToString(f.status), " - ">> \o f.text)
    ELSE IF ~f.json.ok THEN Throw(<<"Unexpected token S in JSON at position 0">>)
    ELSE IF f.json.value.t = "null"
    THEN Throw(<<"Cannot read properties of null (reading 'response')">>)
    ELSE LET got == OllamaExtract(f.json.value.v)
         IN  IF ~got.ok THEN Throw(got.message)
             ELSE IF ~SafeParseSuccess(got.value)
             THEN Throw(<<"Ollama output did not match the expected schema. Validation errors: ">>)
             ELSE Return("ollama", OllamaNormalize(inp, got.value.v))

\* the request of the hosted branch: genkitPromptDefinition(promptData, {model})
GenkitRequest(inp) ==
    [adapter |-> "genkit", model |-> HostedModelIdentifier(inp.aiServiceProvider)]

\* !output.summary || !output.ingredientAnalysis || output.ingredientAnalysis.length === 0
IsIncomplete(o) ==
    \/ ~Has(o, "summary") \/ o["summary"] = <<>>
    \/ ~Has(o, "ingredientAnalysis") \/ Len(o["ingredientAnalysis"]) = 0

\* retryResult.output && retryResult.output.summary && ... .length > 0
RetryIsComplete(x) == x.t = "object" /\ ~IsIncomplete(x.v)

\* the partial structure returned when the retry is incomplete too; it is built
\* from output, the object of the first call
PartialResult(inp, output) ==
    [ summary |-> OrText(output, "summary",
                         <<"Health analysis from ">> \o HostedServiceName(inp.aiServiceProvider)
                             \o <<" could not be fully generated. Key information is missing.">>),
      ingredientAnalysis |-> OrList(output, "ingredientAnalysis", <<>>),
      packagingAnalysis |-> OrText(output, "packagingAnalysis", <<"Not available.">>),
      preservativesAndAdditivesAnalysis |->
          OrText(output, "preservativesAndAdditivesAnalysis", <<"Not available.">>),
      breakdown |-> OrText(output, "breakdown",
                           <<"Partial data available. Critical analysis components might be missing.">>),
      regulatoryStatus |-> OrText(output, "regulatoryStatus", <<"Status not available.">>),
      confidenceScore |-> OrNum(output, "confidenceScore", 0),
      sources |-> IF Has(output, "sources") /\ Len(output["sources"]) > 0
                  THEN output["sources"]
                  ELSE <<HostedServiceName(inp.aiServiceProvider)>>,
      detectedRegion |-> OrText(output, "detectedRegion",
                                OrText(inp, "userRegionHint", <<"Unknown">>)),
      regionalVariations |-> OrList(output, "regionalVariations", <<>>) ]
        @@ (IF Has(output, "overallWarning") /\ output["overallWarning"] # <<>>
            THEN "overallWarning" :> output["overallWarning"] ELSE EmptyObj)
        @@ Field(output, "overallRiskScore")
        @@ Field(output, "overallRiskLevel")
        @@ Field(output, "healthierAlternatives")
        @@ Field(output, "corporatePracticesNote")
        @@ Field(output, "consumerRightsTip")
        @@ Field(output, "estimatedNutriScore")

ConsumerRightsTipIndia ==
    <<"Did you know? As a consumer in India, you can file complaints with the Food Safety and Standards Authority of India (FSSAI) if you find product labeling to be misleading or incomplete. Visit their portal: https://foodlicensing.fssai.gov.in/cmsweb/Complaints.aspx">>

\* a post-processing that gives a hosted answer the confidence default of the
\* ollama branch
PostProcess_DefaultConfidence(inp, output) ==
    IF Has(output, "confidenceScore") /\ output["confidenceScore"] > 0 THEN output
    ELSE ("confidenceScore" :> DefaultConfidence) @@ output

\* the default consumer tip and the default source added to a complete first output
PostProcess(inp, output) ==
    LET tipMissing == ~Has(output, "consumerRightsTip") \/ output["consumerRightsTip"] = <<>>
        regionIndia == Has(output, "detectedRegion")
                          /\ ToLowerCase(output["detectedRegion"]) = <<"india">>
        noRegion == ~Has(output, "detectedRegion") \/ output["detectedRegion"] = <<>>
        hintIndia == Has(inp, "userRegionHint")
                        /\ ToLowerCase(inp["userRegionHint"]) = <<"india">>
        withTip == IF tipMissing /\ (regionIndia \/ (noRegion /\ hintIndia))
                   THEN ("consumerRightsTip" :> ConsumerRightsTipIndia) @@ output
                   ELSE output
    IN  IF ~Has(withTip, "sources") \/ Len(withTip["sources"]) = 0
        THEN ("sources" :> <<HostedServiceName(inp.aiServiceProvider)>>) @@ withTip
        ELSE withTip

\* a first step that asks again after a rejected call
FirstStep_RetryOnThrow(inp, r) ==
    IF r.kind = "throw" THEN Call("awaitRetryEmpty", GenkitRequest(inp))
    ELSE IF r.output.t = "null" THEN Call("awaitRetryEmpty", GenkitRequest(inp))
    ELSE IF IsIncomplete(r.output.v) THEN Call("awaitRetryIncomplete", GenkitRequest(inp))
    ELSE Return("first", PostProcess(inp, r.output.v))

\* from the settling of the first hosted call to the next await or the return
FirstStep(inp, r) ==
    IF r.kind = "throw" THEN Throw(r.message)
    ELSE IF r.output.t = "null" THEN Call("awaitRetryEmpty", GenkitRequest(inp))
    ELSE IF IsIncomplete(r.output.v) THEN Call("awaitRetryIncomplete", GenkitRequest(inp))
    ELSE Return("first", PostProcess(inp, r.output.v))

\* a retry after an empty first output that awaits a call nobody settles
RetryEmptyStep_AwaitsForever(inp, r) ==
    IF r.kind = "throw" THEN Throw(r.message)
    ELSE IF r.output.t # "null" THEN Return("retryEmpty", r.output.v)
    ELSE Call("awaitForever", GenkitRequest(inp))

\* the retry after an empty first output
RetryEmptyStep(inp, r) ==
    IF r.kind = "throw" THEN Throw(r.message)
    ELSE IF r.output.t # "null" THEN Return("retryEmpty", r.output.v)
    ELSE Throw(<<"Failed to generate health analysis from ">>
                   \o HostedServiceName(inp.aiServiceProvider) \o <<" after retry.">>)

\* a retry that asks once more while the output stays incomplete
RetryIncompleteStep_Again(inp, first, r) ==
    IF r.kind = "throw" THEN Throw(r.message)
    ELSE IF RetryIsComplete(r.output) THEN Return("retryIncomplete", r.output.v)
    ELSE Call("awaitRetryIncomplete", GenkitRequest(inp))

\* a retry whose answer is never used: the partial result is built in any case
RetryIncompleteStep_KeepFirst(inp, first, r) ==
    IF r.kind = "throw" THEN Throw(r.message)
    ELSE Return("partial", PartialResult(inp, first))

\* the retry after an incomplete first output (first is that output)
RetryIncompleteStep(inp, first, r) ==
    IF r.kind = "throw" THEN Throw(r.message)
    ELSE IF RetryIsComplete(r.output) THEN Return("retryIncomplete", r.output.v)
    ELSE Return("partial", PartialResult(inp, first))

(***************************************************************************)
(* semanticProductSearchFlow: the requests, the backends' answers and the  *)
(* pieces of the handler.                                                  *)
(***************************************************************************)
ProductNames == {<<"Maggi">>}

SearchInputs ==
    { [aiServiceProvider |-> p, productName |-> n] @@ m :
        p \in Providers, n \in ProductNames,
        m \in {EmptyObj} \cup {("ollamaModelName" :> x) : x \in OllamaModelNames} }

\* SemanticProductSearchOutputSchema: an object with a searchResults list
SemanticProductSearchOutputSchema(o) == Has(o, "searchResults")

\* SemanticProductSearchOutputSchema.safeParse(x).success
SearchSafeParseSuccess(x) == x.t = "object" /\ SemanticProductSearchOutputSchema(x.v)

SearchResultLists == SeqsUpTo({<<"Maggi Masala Noodles">>}, MaxResults)

\* the objects a backend may produce: with a searchResults list, or without
SearchObjects == {EmptyObj} \cup {("searchResults" :> l) : l \in SearchResultLists}

\* an object that satisfies the schema: one product was found
FoundObject == ("searchResults" :> <<<<"Maggi Masala Noodles">>>>)

\* JSON.stringify of a value of the search payload
SearchJSONStringify(x) ==
    IF x.t = "null" THEN <<"null">>
    ELSE IF x.t = "number" THEN <<ToString(x.v)>>
    ELSE IF x.t = "string" THEN Quoted(x.v)
    ELSE <<"{">>
             \o (IF Has(x.v, "searchResults")
                 THEN <<"searchResults", ":", "[">> \o JoinTexts(x.v["searchResults"]) \o <<"]">>
                 ELSE <<>>)
             \o <<"}">>

SearchJsonValues == {JsNull, JsNum(42)} \cup {JsObj(o) : o \in SearchObjects}

\* JSON.parse on the texts of the search payload
SearchJSONParse(s) ==
    IF \E x \in SearchJsonValues : SearchJSONStringify(x) = s
    THEN [ok |-> TRUE, value |-> CHOOSE x \in SearchJsonValues : SearchJSONStringify(x) = s]
    ELSE [ok |-> FALSE]

\* genkitSearchPromptDefinition(promptData, {model}): rejects, or resolves to {output}
SearchGenkitResponses ==
    {[kind |-> "throw", message |-> m] : m \in ErrorMessages}
        \cup {[kind |-> "output", output |-> JsNull]}
        \cup {[kind |-> "output", output |-> JsObj(o)] : o \in SearchObjects}

\* the parsed body of the local endpoint's answer to the search (ollamaResult)
SearchOllamaResults ==
    {("response" :> JsStr(SearchJSONStringify(x))) : x \in SearchJsonValues}
        \cup {("response" :> JsObj(o)) : o \in SearchObjects}
        \cup {("message" :> ("content" :> JsStr(SearchJSONStringify(x)))) : x \in SearchJsonValues}
        \cup { EmptyObj,
               ("response" :> JsNull),
               ("response" :> JsNum(42)),
               ("response" :> JsStr(<<>>)),
               ("response" :> JsStr(NotJson)),
               ("message" :> EmptyObj),
               ("message" :> ("content" :> JsStr(<<>>))),
               ("message" :> ("content" :> JsNum(42))),
               ("message" :> ("content" :> JsStr(NotJson))),
               ("response" :> JsNum(42))
                   @@ ("message" :> ("content" :> JsStr(SearchJSONStringify(JsObj(FoundObject))))),
               ("response" :> JsNull)
                   @@ ("message" :> ("content" :> JsStr(SearchJSONStringify(JsObj(FoundObject))))),
               ("response" :> JsStr(NotJson))
                   @@ ("message" :> ("content" :> JsStr(SearchJSONStringify(JsObj(FoundObject))))) }

SearchFetchOutcomes ==
    {[kind |-> "reject", message |-> m] : m \in ErrorMessages}
        \cup {[kind |-> "http", ok |-> FALSE, status |-> 500, text |-> <<"model not found">>]}
        \cup {[kind |-> "http", ok |-> TRUE, status |-> 200, json |-> [ok |-> FALSE]]}
        \cup {[kind |-> "http", ok |-> TRUE, status |-> 200, json |-> [ok |-> TRUE, value |-> JsNull]]}
        \cup {[kind |-> "http", ok |-> TRUE, status |-> 200, json |-> [ok |-> TRUE, value |-> JsObj(r)]] :
                 r \in SearchOllamaResults}

\* JSON.stringify(ollamaResult) in the search flow
SearchStringifyOllamaResult(r) ==
    <<"{">>
        \o (IF Has(r, "response")
            THEN <<"response", ":">> \o SearchJSONStringify(r["response"]) \o <<",">> ELSE <<>>)
        \o (IF Has(r, "message")
            THEN <<"message", ":", "{">>
                 \o (IF Has(r["message"], "content")
                     THEN <<"content", ":">> \o SearchJSONStringify(r["message"]["content"])
                     ELSE <<>>)
                 \o <<"}">>
            ELSE <<>>)
        \o <<"}">>

\* serviceName of the search flow's catch block
SearchServiceName(inp) ==
    IF inp.aiServiceProvider = "ollama"
    THEN <<"Ollama (">> \o OrText(inp, "ollamaModelName", <<"default">>) \o <<")">>
    ELSE <<inp.aiServiceProvider>>

\* the object the search flow's catch block returns
SearchErrorResult(inp, message) ==
    [ searchResults |->
        << ErrorMarker \o SearchServiceName(inp) \o <<"): ">>
               \o (IF message # <<>> THEN message
                   ELSE <<"Unknown error during product search.">>) >> ]

\* try { ... } catch (error) { return {...} } of the search flow
SearchTryCatch(inp, step) ==
    IF step.kind = "throw"
    THEN [outcome |-> "resolved", value |-> SearchErrorResult(inp, step.message)]
    ELSE [outcome |-> "resolved", value |-> step.value]

\* from the start of the search handler to its await
SearchStartStep(inp) ==
    IF inp.aiServiceProvider = "ollama"
    THEN Call("awaitOllama",
              [ adapter |-> "fetch", url |-> <<"http://localhost:11434/api/generate">>,
                model |-> OrText(inp, "ollamaModelName", <<"qwen3:8b">>) ])
    ELSE IF HostedModelIdentifier(inp.aiServiceProvider) = <<>>
    THEN Throw(<<"Unsupported AI service provider for search: ", inp.aiServiceProvider>>)
    ELSE Call("awaitHosted",
              [adapter |-> "genkit", model |-> HostedModelIdentifier(inp.aiServiceProvider)])

\* the three envelopes in the search flow: the extracted outputJson, or an Error
SearchOllamaExtract(r) ==
    IF Has(r, "response") /\ TypeOf(r["response"]) = "string"
    THEN IF SearchJSONParse(r["response"].v).ok
         THEN [ok |-> TRUE, value |-> SearchJSONParse(r["response"].v).value]
         ELSE [ok |-> FALSE,
               message |-> <<"Ollama returned a string in 'response' (search) that is not valid JSON. Content: ">>
                              \o r["response"].v]
    ELSE IF Has(r, "response") /\ TypeOf(r["response"]) = "object"
    THEN [ok |-> TRUE, value |-> r["response"]]
    ELSE IF /\ Has(r, "message")
            /\ Has(r["message"], "content")
            /\ r["message"]["content"].t = "string"
            /\ r["message"]["content"].v # <<>>
    THEN IF SearchJSONParse(r["message"]["content"].v).ok
         THEN [ok |-> TRUE, value |-> SearchJSONParse(r["message"]["content"].v).value]
         ELSE [ok |-> FALSE,
               message |-> <<"Ollama returned a string in 'message.content' (search) that is not valid JSON. Content: ">>
                              \o r["message"]["content"].v]
    ELSE [ok |-> FALSE,
          message |-> <<"Ollama response field (search) is not a JSON string or expected object. Full response: ">>
                         \o SearchStringifyOllamaResult(r)]

\* from the settling of fetch to the end of the search flow's ollama branch
SearchOllamaStep(inp, f) ==
    IF f.kind = "reject" THEN Throw(f.message)
    ELSE IF ~f.ok
    THEN Throw(<<"Ollama API request failed for semantic search: ", ToString(f.status), " - ">>
                   \o f.text)
    ELSE IF ~f.json.ok THEN Throw(<<"Unexpected token S in JSON at position 0">>)
    ELSE IF f.json.value.t = "null"
    THEN Throw(<<"Cannot read properties of null (reading 'response')">>)
    ELSE LET got == SearchOllamaExtract(f.json.value.v)
         IN  IF ~got.ok THEN Throw(got.message)
             ELSE IF ~SearchSafeParseSuccess(got.value)
             THEN Throw(<<"Ollama output (semantic search) did not match schema. Errors: ">>)
             ELSE Return("ollama", got.value.v)

\* from the settling of the hosted call to the end of the search flow
SearchHostedStep(inp, r) ==
    IF r.kind = "throw" THEN Throw(r.message)
    ELSE IF r.output.t = "null"
    THEN Throw(<<"Semantic product search with ">>
                   \o HostedModelIdentifier(inp.aiServiceProvider) \o <<" returned no output.">>)
    ELSE Return("hosted", r.output.v)

(***************************************************************************)
(* The page NutriSleuthPage of src/unnamed/part_000: its React state, its  *)
(* two handlers and the buttons that start them.  A handler runs from the  *)
(* click to its await and from the settling of the awaited call to its     *)
(* end; state updates of one such stretch are rendered together.  What an  *)
(* awaited flow answers is the environment's choice among the results the  *)
(* flows produce.                                                          *)
(***************************************************************************)
JsUndefined == [t |-> "undefined"]

JsArr(l) == [t |-> "array", v |-> l]

\* the texts the form hands over: a product name, a barcode or ingredient list
FormTypes == {"name", "barcode", "ingredients", "image"}

FormData(type) ==
    IF type = "name" THEN ProductNames
    ELSE IF type = "image" THEN {<<"label.png">>}
    ELSE ProductInfos

\* useState("India")
userRegionHint == <<"India">>

\* what the awaited semanticProductSearch settles with
PageSearchOutcomes ==
    {[kind |-> "reject", message |-> m] : m \in ErrorMessages}
        \cup {[kind |-> "resolve", value |-> o] :
                 o \in { EmptyObj,
                         ("searchResults" :> <<>>),
                         FoundObject,
                         SearchErrorResult([aiServiceProvider |-> "gemini",
                                            productName |-> <<"Maggi">>], <<"fetch failed">>),
                         ("searchResults" :> << <<"Search failed:", " fetch failed">> >>) }}

\* what the awaited generateHealthAnalysis settles with
PageAnalysisOutcomes ==
    {[kind |-> "reject", message |-> m] : m \in ErrorMessages}
        \cup {[kind |-> "resolve", value |-> o] :
                 o \in { CompleteObject,
                         EmptyObj,
                         ErrorResult([aiServiceProvider |-> "gemini",
                                      productInfo |-> <<"Maggi Noodles">>], <<"fetch failed">>) }}

\* what the awaited fileToBase64 settles with
ImageOutcomes ==
    {[kind |-> "reject"], [kind |-> "resolve", value |-> <<"data:image/png;base64,AAAA">>]}

\* the state updates of a resetState() that keeps the search results
resetState_KeepResults ==
    [ errorMessage |-> JsNull, healthAnalysis |-> JsNull,
      selectedProductForAnalysis |-> JsNull, searchResults |-> searchResults ]

\* the state updates of resetState()
resetState ==
    [ errorMessage |-> JsNull, healthAnalysis |-> JsNull,
      selectedProductForAnalysis |-> JsNull, searchResults |-> JsNull ]

\* the label handleSearchOrAnalyze shows for a direct analysis
AnalysisLabel(type, data) ==
    IF type = "barcode" THEN <<"Barcode: ">> \o data
    ELSE IF type = "ingredients" THEN <<"Custom Ingredients">>
    ELSE <<"Uploaded Image">>

\* analysisInput of both handlers: no aiServiceProvider is passed
AnalysisInput(info) == [productInfo |-> info, userRegionHint |-> userRegionHint]

\* the submit button of QueryForm is enabled
SubmitEnabled == ~(isLoading \/ isAnalyzing)

\* SearchResultsDisplay is rendered with buttons that are enabled
ProductButtonsEnabled ==
    /\ searchResults.t = "array"
    /\ searchResults.v # <<>>
    /\ healthAnalysis = JsNull
    /\ ~isAnalyzing

\* error.message || fallback
DisplayError(message, fallback) == IF message # <<>> THEN message ELSE fallback

\* the name branch of handleSearchOrAnalyze from the settling of
\* semanticProductSearch to its end: the state updates
AfterSearch(got) ==
    IF got.kind = "reject"
    THEN [ errorMessage |-> JsStr(DisplayError(got.message,
                                <<"Failed to search for products. Please try again.">>)),
           searchResults |-> searchResults,
           isLoading |-> FALSE ]
    ELSE LET found == IF Has(got.value, "searchResults")
                      THEN JsArr(got.value["searchResults"]) ELSE JsUndefined
         IN  IF found = JsUndefined \/ found.v = <<>>
             THEN [ errorMessage |->
                        JsStr(<<"No products found for your search term. Please try a different name.">>),
                    searchResults |-> found,
                    isLoading |-> FALSE ]
             ELSE IF \E i \in 1..Len(found.v) : StartsWith(found.v[i], <<"Search failed:">>)
             THEN [ errorMessage |->
                        JsStr(found.v[CHOOSE i \in 1..Len(found.v) :
                                  /\ StartsWith(found.v[i], <<"Search failed:">>)
                                  /\ \A j \in 1..(i - 1) :
                                         ~StartsWith(found.v[j], <<"Search failed:">>)]),
                    searchResults |-> JsNull,
                    isLoading |-> FALSE ]
             ELSE [ errorMessage |-> errorMessage,
                    searchResults |-> found,
                    isLoading |-> FALSE ]

\* a handler whose flags are reset only when the analysis resolved
AfterAnalysis_NoFinally(handler, fallback, got) ==
    IF got.kind = "reject"
    THEN [ errorMessage |-> JsStr(DisplayError(got.message, fallback)),
           healthAnalysis |-> healthAnalysis,
           isLoading |-> isLoading, isAnalyzing |-> isAnalyzing ]
    ELSE [ errorMessage |-> errorMessage,
           healthAnalysis |-> JsObj(got.value),
           isLoading |-> IF handler = "handleSearchOrAnalyze" THEN FALSE ELSE isLoading,
           isAnalyzing |-> IF handler = "handleProductSelectForAnalysis" THEN FALSE
                           ELSE isAnalyzing ]

\* either handler from the settling of generateHealthAnalysis to its end: the
\* state updates of try, catch and finally
AfterAnalysis(handler, fallback, got) ==
    LET flags == [ isLoading |-> IF handler = "handleSearchOrAnalyze" THEN FALSE
                                 ELSE isLoading,
                   isAnalyzing |-> IF handler = "handleProductSelectForAnalysis" THEN FALSE
                                   ELSE isAnalyzing ]
    IN  IF got.kind = "reject"
        THEN [ errorMessage |-> JsStr(DisplayError(got.message, fallback)),
               healthAnalysis |-> healthAnalysis ] @@ flags
        ELSE IF ~Has(got.value, "summary")
        THEN [ errorMessage |->
                   JsStr(<<"Cannot read properties of undefined (reading 'startsWith')">>),
               healthAnalysis |-> healthAnalysis ] @@ flags
        ELSE IF StartsWith(got.value["summary"], <<"Health analysis encountered an error:">>)
        THEN [ errorMessage |-> JsStr(got.value["summary"]),
               healthAnalysis |-> JsNull ] @@ flags
        ELSE [ errorMessage |-> errorMessage,
               healthAnalysis |-> JsObj(got.value) ] @@ flags

\* the fallback text of each handler's catch block
AnalysisFallback(h) ==
    IF h.handler = "handleSearchOrAnalyze"
    THEN <<"Failed to generate health analysis. The AI model might be unavailable or the input is invalid.">>
    ELSE <<"Failed to analyze \"">> \o h.call.productInfo
             \o <<"\". Please try again or select another product.">>

\* the handler instances that have not finished
Running == {i \in 1..Len(handlers) : handlers[i].at # "finished"}

(***************************************************************************)
(* The state machine.                                                      *)
(***************************************************************************)
Init ==
    /\ pc = "idle"
    /\ input = EmptyObj
    /\ requests = <<>>
    /\ inFlight = 0
    /\ attempts = <<>>
    /\ outcome = "pending"
    /\ path = "none"
    /\ result = EmptyObj
    /\ searchPc = "idle"
    /\ searchInput = EmptyObj
    /\ searchRequests = <<>>
    /\ searchAttempts = <<>>
    /\ searchOutcome = "pending"
    /\ searchResult = EmptyObj
    /\ isLoading = FALSE
    /\ isAnalyzing = FALSE
    /\ errorMessage = JsNull
    /\ searchResults = JsNull
    /\ selectedProductForAnalysis = JsNull
    /\ healthAnalysis = JsNull
    /\ handlers = <<>>

\* the handler goes on with step while flying backend calls are unsettled:
\* it issues the next backend call, or the promise settles
Continue(inp, step, flying) ==
    IF step.kind = "call"
    THEN /\ pc' = step.pc
         /\ requests' = Append(requests, step.request)
         /\ inFlight' = flying + 1
         /\ UNCHANGED <<outcome, path, result>>
    ELSE /\ pc' = "done"
         /\ outcome' = TryCatch(inp, step).outcome
         /\ path' = TryCatch(inp, step).path
         /\ result' = TryCatch(inp, step).value
         /\ inFlight' = flying
         /\ UNCHANGED requests

\* generateHealthAnalysis(input) is called
Invoke ==
    /\ pc = "idle"
    /\ searchPc = "idle"
    /\ UNCHANGED <<searchVars, pageVars>>
    /\ \E inp \in Inputs :
          /\ input' = inp
          /\ UNCHANGED attempts
          /\ Continue(inp, StartStep(inp), inFlight)

\* the fetch of the ollama branch settles
OllamaSettles ==
    /\ pc = "awaitOllama"
    /\ UNCHANGED <<searchVars, pageVars>>
    /\ \E f \in FetchOutcomes :
          /\ attempts' = Append(attempts, f)
          /\ UNCHANGED input
          /\ Continue(input, OllamaStep(input, f), inFlight - 1)

\* the first hosted call settles
FirstSettles ==
    /\ pc = "awaitFirst"
    /\ UNCHANGED <<searchVars, pageVars>>
    /\ \E r \in GenkitResponses :
          /\ attempts' = Append(attempts, r)
          /\ UNCHANGED input
          /\ Continue(input, FirstStep(input, r), inFlight - 1)

\* the retry after an empty output settles
RetryEmptySettles ==
    /\ pc = "awaitRetryEmpty"
    /\ UNCHANGED <<searchVars, pageVars>>
    /\ \E r \in GenkitResponses :
          /\ attempts' = Append(attempts, r)
          /\ UNCHANGED input
          /\ Continue(input, RetryEmptyStep(input, r), inFlight - 1)

\* the retry after an incomplete output settles
RetryIncompleteSettles ==
    /\ pc = "awaitRetryIncomplete"
    /\ UNCHANGED <<searchVars, pageVars>>
    /\ \E r \in GenkitResponses :
          /\ attempts' = Append(attempts, r)
          /\ UNCHANGED input
          /\ Continue(input, RetryIncompleteStep(input, attempts[1].output.v, r), inFlight - 1)

\* the search handler goes on with step: it issues its backend call, or the
\* promise settles
SearchContinue(inp, step) ==
    IF step.kind = "call"
    THEN /\ searchPc' = step.pc
         /\ searchRequests' = Append(searchRequests, step.request)
         /\ UNCHANGED <<searchOutcome, searchResult>>
    ELSE /\ searchPc' = "done"
         /\ searchOutcome' = SearchTryCatch(inp, step).outcome
         /\ searchResult' = SearchTryCatch(inp, step).value
         /\ UNCHANGED searchRequests

\* semanticProductSearch(input) is called
SearchInvoke ==
    /\ searchPc = "idle"
    /\ pc = "idle"
    /\ UNCHANGED <<analysisVars, pageVars>>
    /\ \E inp \in SearchInputs :
          /\ searchInput' = inp
          /\ UNCHANGED searchAttempts
          /\ SearchContinue(inp, SearchStartStep(inp))

\* the fetch of the search flow's ollama branch settles
SearchOllamaSettles ==
    /\ searchPc = "awaitOllama"
    /\ UNCHANGED <<analysisVars, pageVars>>
    /\ \E f \in SearchFetchOutcomes :
          /\ searchAttempts' = Append(searchAttempts, f)
          /\ UNCHANGED searchInput
          /\ SearchContinue(searchInput, SearchOllamaStep(searchInput, f))

\* the hosted call of the search flow settles
SearchHostedSettles ==
    /\ searchPc = "awaitHosted"
    /\ UNCHANGED <<analysisVars, pageVars>>
    /\ \E r \in SearchGenkitResponses :
          /\ searchAttempts' = Append(searchAttempts, r)
          /\ UNCHANGED searchInput
          /\ SearchContinue(searchInput, SearchHostedStep(searchInput, r))

\* the form is submitted: handleSearchOrAnalyze(data, type) up to its first await
HandleSearchOrAnalyze ==
    /\ SubmitEnabled
    /\ Len(handlers) < MaxStarts
    /\ UNCHANGED <<analysisVars, searchVars>>
    /\ \E type \in FormTypes : \E data \in FormData(type) :
          /\ errorMessage' = resetState.errorMessage
          /\ searchResults' = resetState.searchResults
          /\ healthAnalysis' = resetState.healthAnalysis
          /\ isLoading' = TRUE
          /\ UNCHANGED isAnalyzing
          /\ IF type = "name"
             THEN /\ selectedProductForAnalysis' = resetState.selectedProductForAnalysis
                  /\ handlers' = Append(handlers,
                         [ handler |-> "handleSearchOrAnalyze", at |-> "awaitSearch",
                           call |-> [productName |-> data] ])
             ELSE IF type = "image"
             THEN /\ selectedProductForAnalysis' = resetState.selectedProductForAnalysis
                  /\ handlers' = Append(handlers,
                         [ handler |-> "handleSearchOrAnalyze", at |-> "awaitImage",
                           call |-> [file |-> data] ])
             ELSE /\ selectedProductForAnalysis' = JsStr(AnalysisLabel(type, data))
                  /\ handlers' = Append(handlers,
                         [ handler |-> "handleSearchOrAnalyze", at |-> "awaitAnalysis",
                           call |-> AnalysisInput(data) ])

\* a product button is clicked: handleProductSelectForAnalysis(productName) up to
\* its await
HandleProductSelectForAnalysis ==
    /\ ProductButtonsEnabled
    /\ Len(handlers) < MaxStarts
    /\ UNCHANGED <<analysisVars, searchVars>>
    /\ \E k \in 1..Len(searchResults.v) :
          /\ errorMessage' = resetState.errorMessage
          /\ searchResults' = resetState.searchResults
          /\ healthAnalysis' = resetState.healthAnalysis
          /\ isAnalyzing' = TRUE
          /\ UNCHANGED isLoading
          /\ selectedProductForAnalysis' = JsStr(searchResults.v[k])
          /\ handlers' = Append(handlers,
                 [ handler |-> "handleProductSelectForAnalysis", at |-> "awaitAnalysis",
                   call |-> AnalysisInput(searchResults.v[k]) ])

\* fileToBase64 settles: the image is converted and the analysis is called, or the
\* handler ends with an error message
ImageSettles ==
    /\ UNCHANGED <<analysisVars, searchVars>>
    /\ \E i \in Running : \E got \in ImageOutcomes :
          /\ handlers[i].at = "awaitImage"
          /\ UNCHANGED <<searchResults, healthAnalysis, isAnalyzing>>
          /\ IF got.kind = "reject"
             THEN /\ errorMessage' = JsStr(<<"Failed to process image. Please try again.">>)
                  /\ isLoading' = FALSE
                  /\ UNCHANGED selectedProductForAnalysis
                  /\ handlers' = [handlers EXCEPT ![i] =
                         [handler |-> @.handler, at |-> "finished", call |-> @.call, got |-> got]]
             ELSE /\ selectedProductForAnalysis' = JsStr(AnalysisLabel("image", <<>>))
                  /\ UNCHANGED <<errorMessage, isLoading>>
                  /\ handlers' = [handlers EXCEPT ![i] =
                         [ handler |-> @.handler, at |-> "awaitAnalysis",
                           call |-> AnalysisInput(got.value) ]]

\* the awaited semanticProductSearch settles and handleSearchOrAnalyze runs to its end
PageSearchSettles ==
    /\ UNCHANGED <<analysisVars, searchVars>>
    /\ \E i \in Running : \E got \in PageSearchOutcomes :
          /\ handlers[i].at = "awaitSearch"
          /\ errorMessage' = AfterSearch(got).errorMessage
          /\ searchResults' = AfterSearch(got).searchResults
          /\ isLoading' = AfterSearch(got).isLoading
          /\ UNCHANGED <<healthAnalysis, selectedProductForAnalysis, isAnalyzing>>
          /\ handlers' = [handlers EXCEPT ![i] =
                 [handler |-> @.handler, at |-> "finished", call |-> @.call, got |-> got]]

\* the awaited generateHealthAnalysis settles and the handler runs to its end
PageAnalysisSettles ==
    /\ UNCHANGED <<analysisVars, searchVars>>
    /\ \E i \in Running : \E got \in PageAnalysisOutcomes :
          /\ handlers[i].at = "awaitAnalysis"
          /\ LET after == AfterAnalysis(handlers[i].handler, AnalysisFallback(handlers[i]), got)
             IN  /\ errorMessage' = after.errorMessage
                 /\ healthAnalysis' = after.healthAnalysis
                 /\ isLoading' = after.isLoading
                 /\ isAnalyzing' = after.isAnalyzing
          /\ UNCHANGED <<searchResults, selectedProductForAnalysis>>
          /\ handlers' = [handlers EXCEPT ![i] =
                 [handler |-> @.handler, at |-> "finished", call |-> @.call, got |-> got]]

Next ==
    \/ Invoke
    \/ OllamaSettles
    \/ FirstSettles
    \/ RetryEmptySettles
    \/ RetryIncompleteSettles
    \/ SearchInvoke
    \/ SearchOllamaSettles
    \/ SearchHostedSettles

Spec == Init /\ [][Next]_vars

\* every awaited backend call of the analysis flow eventually returns or throws
FairSpec ==
    /\ Spec
    /\ WF_vars(OllamaSettles)
    /\ WF_vars(FirstSettles)
    /\ WF_vars(RetryEmptySettles)
    /\ WF_vars(RetryIncompleteSettles)

\* the steps of the page
PageNext ==
    \/ HandleSearchOrAnalyze
    \/ HandleProductSelectForAnalysis
    \/ ImageSettles
    \/ PageSearchSettles
    \/ PageAnalysisSettles

\* the page on its own: the flows it awaits are its environment
PageSpec == Init /\ [][PageNext]_vars

(***************************************************************************)
(* Vocabulary of the properties.                                           *)
(***************************************************************************)
Done == pc = "done"

\* the paths on which a backend object is returned as the analysis
SuccessPaths == {"ollama", "first", "retryEmpty", "retryIncomplete"}

\* the payload extracted from a settled call: ok with the JSON value, or not ok
Payload(a) ==
    IF a.kind = "output" THEN [ok |-> TRUE, value |-> a.output]
    ELSE IF a.kind = "http" /\ a.ok /\ a.json.ok /\ a.json.value.t = "object"
    THEN OllamaExtract(a.json.value.v)
    ELSE [ok |-> FALSE]

\* the call raised an exception: network or auth error, non-2xx status, parse failure
AttemptThrew(a) == ~Payload(a).ok

\* the call answered with no object
AttemptEmpty(a) == Payload(a).ok /\ Payload(a).value.t = "null"

\* the call answered with an object lacking summary or ingredients
AttemptIncomplete(a) ==
    Payload(a).ok /\ Payload(a).value.t = "object" /\ IsIncomplete(Payload(a).value.v)

\* the call answered with an object that fails the schema
AttemptSchemaInvalid(a) ==
    Payload(a).ok /\ Payload(a).value.t = "object"
        /\ ~HealthAnalysisOutputSchema(Payload(a).value.v)

\* String.prototype.includes
Includes(s, p) == \E i \in 0..(Len(s) - Len(p)) : SubSeq(s, i + 1, i + Len(p)) = p

\* the message of the Error that a failed attempt makes the handler throw
ThrownMessage(inp, a) ==
    IF a.kind = "throw" THEN a.message ELSE OllamaStep(inp, a).message

\* the name under which a provider appears in the texts of a result
ProviderLabel(p) == IF p = "ollama" THEN <<"Ollama (">> ELSE <<p>>

\* the first call of a hosted run answered with a complete, schema-valid object
FirstComplete ==
    /\ Done
    /\ input.aiServiceProvider \in HostedProviders
    /\ attempts # <<>>
    /\ attempts[1].kind = "output"
    /\ attempts[1].output.t = "object"
    /\ ~IsIncomplete(attempts[1].output.v)
    /\ HealthAnalysisOutputSchema(attempts[1].output.v)

\* the region an answer is about: the one it detected, else the user's hint
RegionOf(inp, o) ==
    IF Has(o, "detectedRegion") /\ o["detectedRegion"] # <<>> THEN o["detectedRegion"]
    ELSE IF Has(inp, "userRegionHint") THEN inp["userRegionHint"]
    ELSE <<>>

\* the answer carries no consumer tip of its own
TipMissing(o) == ~Has(o, "consumerRightsTip") \/ o["consumerRightsTip"] = <<>>

\* both calls of a hosted run answered with an object lacking summary or ingredients
BothIncomplete ==
    /\ Done
    /\ input.aiServiceProvider \in HostedProviders
    /\ Len(attempts) = 2
    /\ AttemptIncomplete(attempts[1])
    /\ AttemptIncomplete(attempts[2])

\* the object has a value for the key: not undefined, '', [] or 0
Produced(o, k) ==
    Has(o, k) /\ (IF k \in NumberKeys THEN o[k] # 0 ELSE o[k] # <<>>)

\* a 200 answer of the local endpoint whose body parses to r
FetchOk(r) ==
    [kind |-> "http", ok |-> TRUE, status |-> 200, json |-> [ok |-> TRUE, value |-> JsObj(r)]]

\* the three documented envelopes carrying the analysis payload o
Envelopes(o) ==
    { ("response" :> JsStr(JSONStringify(JsObj(o)))),
      ("response" :> JsObj(o)),
      ("message" :> ("content" :> JsStr(JSONStringify(JsObj(o))))) }

\* the three documented envelopes carrying the search payload o
SearchEnvelopes(o) ==
    { ("response" :> JsStr(SearchJSONStringify(JsObj(o)))),
      ("response" :> JsObj(o)),
      ("message" :> ("content" :> JsStr(SearchJSONStringify(JsObj(o))))) }

\* the payload extracted from a settled call of the search: ok with the JSON
\* value, or not ok
SearchPayload(a) ==
    IF a.kind = "output" THEN [ok |-> TRUE, value |-> a.output]
    ELSE IF a.kind = "http" /\ a.ok /\ a.json.ok /\ a.json.value.t = "object"
    THEN SearchOllamaExtract(a.json.value.v)
    ELSE [ok |-> FALSE]

\* the call of the search failed: exception, non-2xx status, unparsable body or
\* payload, unrecognised envelope, empty output, or output failing the schema
SearchAttemptFailed(a) ==
    \/ ~SearchPayload(a).ok
    \/ ~SearchSafeParseSuccess(SearchPayload(a).value)

\* the text s with every token marker replaced by the text info, taken as it is
RECURSIVE Splice(_, _, _)
Splice(s, marker, info) ==
    IF s = <<>> THEN <<>>
    ELSE (IF Head(s) = marker THEN info ELSE <<Head(s)>>) \o Splice(Tail(s), marker, info)

\* the tokens of the template syntax
TemplateSyntax ==
    {"{{{productInfo}}}", "{{{userRegionHint}}}", "{{#if userRegionHint}}", "{{/if}}"}

\* a text in which no template syntax occurs
PlainOfSyntax(s) == \A i \in 1..Len(s) : s[i] \notin TemplateSyntax

\* the step the handler takes when the call it awaits at pc value at settles with
\* the k-th of the responses
StepAfter(inp, at, responses, k) ==
    CASE at = "awaitOllama" -> OllamaStep(inp, responses[k])
      [] at = "awaitFirst" -> FirstStep(inp, responses[k])
      [] at = "awaitRetryEmpty" -> RetryEmptyStep(inp, responses[k])
      [] at = "awaitRetryIncomplete" ->
             RetryIncompleteStep(inp, responses[1].output.v, responses[k])

\* the run of the handler on request inp when its backend calls are answered, in
\* order, by the responses: the calls it issues and what it returns
RECURSIVE Replay(_, _, _, _, _)
Replay(inp, step, issued, responses, k) ==
    IF step.kind = "call"
    THEN IF k > Len(responses)
         THEN [requests |-> Append(issued, step.request), path |-> "pending", result |-> EmptyObj]
         ELSE Replay(inp, StepAfter(inp, step.pc, responses, k),
                     Append(issued, step.request), responses, k + 1)
    ELSE [ requests |-> issued,
           path |-> TryCatch(inp, step).path,
           result |-> TryCatch(inp, step).value ]

RunOf(inp, responses) == Replay(inp, StartStep(inp), <<>>, responses, 1)

\* the request inp with ollamaModelName absent (EmptyObj) or set
WithModelName(inp, m) == m @@ Without(inp, "ollamaModelName")

ModelNameChoices ==
    {EmptyObj} \cup {("ollamaModelName" :> n) : n \in OllamaModelNames \cup {<<"mistral:7b">>}}

\* the parsed body r has one of the three documented envelope shapes: a string in
\* response, an object in response, or a string in message.content
DocumentedShape(r) ==
    \/ Has(r, "response") /\ r["response"].t \in {"string", "object"}
    \/ Has(r, "message") /\ Has(r["message"], "content")
           /\ r["message"]["content"].t = "string"

\* the answer of the local endpoint is JSON, but in none of the three shapes
UndocumentedShape(a) ==
    /\ a.kind = "http" /\ a.ok /\ a.json.ok
    /\ a.json.value.t = "object" => ~DocumentedShape(a.json.value.v)

\* the JSON text of the body of such an answer
RawPayload(a) ==
    IF a.json.value.t = "null" THEN <<"null">> ELSE StringifyOllamaResult(a.json.value.v)

ZeroConfidence(o) == Has(o, "confidenceScore") /\ o["confidenceScore"] = 0

NoIngredients(o) == Has(o, "ingredientAnalysis") /\ o["ingredientAnalysis"] = <<>>

(***************************************************************************)
(* Properties.                                                             *)
(***************************************************************************)
\* C1: the promise of generateHealthAnalysis is never rejected; when the handler
\* is done it has resolved, whatever the backend did on each attempt.
C1_NeverRejects ==
    /\ outcome # "rejected"
    /\ Done => outcome = "resolved"

\* C1 witness: a run whose retry call rejected and which resolved all the same
C1_Witness ==
    /\ Done /\ outcome = "resolved" /\ path = "error"
    /\ Len(attempts) = 2 /\ attempts[2].kind = "throw"

\* C2: every returned result satisfies HealthAnalysisOutputSchema (required keys
\* present, confidenceScore in 0..100, overallRiskScore in 1..5 when present).
C2_ResultSchemaValid == Done => HealthAnalysisOutputSchema(result)

\* C3: for every supported provider, a backend that answers every call with an
\* incomplete object is invoked exactly twice.
C3_IncompleteInvokedTwice ==
    ( /\ Done
      /\ input.aiServiceProvider \in SupportedProviders
      /\ attempts # <<>>
      /\ \A i \in 1..Len(attempts) : AttemptIncomplete(attempts[i]) )
        => Len(requests) = 2

\* C4: a run issues at most two backend calls, never two at a time: the second is
\* issued only once the first has settled.
C4_AtMostTwoSequential ==
    /\ Len(requests) <= 2
    /\ inFlight <= 1
    /\ inFlight = Len(requests) - Len(attempts)
    /\ Len(requests) = 2 => Len(attempts) >= 1

\* C4 witness: the retry is in flight, after the first call settled
C4_Witness == Len(requests) = 2 /\ Len(attempts) = 1 /\ inFlight = 1

\* C5: a returned result whose confidenceScore is 0 has an empty ingredientAnalysis.
C5_ZeroConfidenceNoIngredients ==
    (Done /\ ZeroConfidence(result)) => NoIngredients(result)

\* C6: a result returned as a successful analysis never has confidenceScore 0.
C6_SuccessNeverZero ==
    (Done /\ path \in SuccessPaths) => ~ZeroConfidence(result)

\* C7: a backend object returned as a successful analysis has a non-empty summary
\* and a non-empty ingredientAnalysis.
C7_SuccessIsComplete ==
    (Done /\ path \in SuccessPaths) => ~IsIncomplete(result)

\* C8: when the first call answers with an object that fails the schema, the
\* backend is called once more before the run ends.
C8_SchemaFailureRetried ==
    ( /\ Done
      /\ input.aiServiceProvider \in SupportedProviders
      /\ attempts # <<>>
      /\ AttemptSchemaInvalid(attempts[1]) )
        => Len(requests) = 2

\* C9: when the first call answers with no object, the backend is called exactly
\* once more, for ollama as for the hosted providers; an object answered by the
\* retry is the result, and a second empty answer gives the failure result.
C9_EmptyRetriedOnce ==
    ( /\ Done
      /\ input.aiServiceProvider \in SupportedProviders
      /\ attempts # <<>>
      /\ AttemptEmpty(attempts[1]) )
        => /\ Len(requests) = 2
           /\ Len(attempts) = 2
           /\ (Payload(attempts[2]).ok /\ Payload(attempts[2]).value.t = "object")
                  => result = Payload(attempts[2]).value.v
           /\ AttemptEmpty(attempts[2])
                  => (ZeroConfidence(result) /\ NoIngredients(result))

\* C10: an exception on an attempt ends the run in the catch block at once: it is
\* the last attempt, and no backend call follows it.
C10_ThrowEndsRun ==
    \A i \in 1..Len(attempts) :
        AttemptThrew(attempts[i])
            => /\ Done
               /\ path = "error"
               /\ i = Len(attempts)
               /\ Len(requests) = i

\* C10 witness: the first call answered, the retry threw, and the run ended there
C10_Witness ==
    /\ Done /\ Len(attempts) = 2 /\ Len(requests) = 2
    /\ ~AttemptThrew(attempts[1]) /\ AttemptThrew(attempts[2])

\* C11: when every attempt of the run threw, the result has confidenceScore 0, an
\* empty ingredientAnalysis and a non-empty summary that starts with the error
\* marker and contains the provider's name and the message of the Error.
C11_ThrowGivesErrorResult ==
    ( /\ Done
      /\ attempts # <<>>
      /\ \A i \in 1..Len(attempts) : AttemptThrew(attempts[i]) )
        => /\ result["confidenceScore"] = 0
           /\ result["ingredientAnalysis"] = <<>>
           /\ result["summary"] # <<>>
           /\ StartsWith(result["summary"], <<"AI service error (">>)
           /\ Includes(result["summary"], ProviderLabel(input.aiServiceProvider))
           /\ Includes(result["summary"], ThrownMessage(input, attempts[Len(attempts)]))

\* C11 witness: the local endpoint answered with a non-2xx status
C11_Witness ==
    /\ Done /\ path = "error" /\ Len(attempts) = 1
    /\ attempts[1].kind = "http" /\ ~attempts[1].ok
    /\ Includes(result["summary"], <<"model not found">>)

C13_RetryObjectIsResult ==
    ( /\ Done
      /\ input.aiServiceProvider \in HostedProviders
      /\ attempts # <<>>
      /\ AttemptIncomplete(attempts[1]) )
        => /\ Len(requests) = 2
           /\ Len(attempts) = 2
           /\ (attempts[2].kind = "output" /\ RetryIsComplete(attempts[2].output))
                  => /\ path = "retryIncomplete"
                     /\ result = attempts[2].output.v

\* C13 witness: the first call answered {} and the second a complete object
C13_Witness ==
    /\ Done /\ Len(requests) = 2 /\ Len(attempts) = 2
    /\ input.aiServiceProvider \in HostedProviders
    /\ attempts[1].kind = "output" /\ attempts[1].output = JsObj(EmptyObj)
    /\ attempts[2].kind = "output" /\ attempts[2].output = JsObj(CompleteObject)
    /\ result = CompleteObject

\* C14: when both attempts are incomplete, the partial result has confidenceScore 0,
\* whatever confidenceScore the attempts reported.
C14_PartialZeroConfidence ==
    BothIncomplete => (path = "partial" /\ result["confidenceScore"] = 0)

\* C15: when both attempts are incomplete, every field the second attempt produced
\* has the second attempt's value in the partial result, and no value that only
\* the first attempt produced appears in it.
C15_PartialFromSecond ==
    BothIncomplete
        => LET first == attempts[1].output.v
               second == attempts[2].output.v
           IN  /\ \A k \in DOMAIN second :
                      Produced(second, k) => (Has(result, k) /\ result[k] = second[k])
               /\ \A k \in DOMAIN first :
                      (Produced(first, k) /\ ~(Has(second, k) /\ second[k] = first[k]))
                          => ~(Has(result, k) /\ result[k] = first[k])

\* C16: every returned result has a non-empty sources list, on every path and for
\* every provider.
C16_SourcesNeverEmpty ==
    Done => (Has(result, "sources") /\ Len(result["sources"]) > 0)

\* C17: for ollama, the three documented envelopes of one payload give the same
\* extracted object, the payload itself, and the same final result: whichever of
\* the three the endpoint answered with, the other two would have given the result
\* of the run.  This holds in the analysis flow and in the search flow.
C17_EnvelopesAgree ==
    /\ (Done /\ input.aiServiceProvider = "ollama")
           => \A o \in BackendObjects :
                  attempts[1] \in {FetchOk(r) : r \in Envelopes(o)}
                      => \A r \in Envelopes(o) :
                             /\ OllamaExtract(r) = [ok |-> TRUE, value |-> JsObj(o)]
                             /\ TryCatch(input, OllamaStep(input, FetchOk(r))).value = result
    /\ (searchPc = "done" /\ searchInput.aiServiceProvider = "ollama")
           => \A o \in SearchObjects :
                  searchAttempts[1] \in {FetchOk(r) : r \in SearchEnvelopes(o)}
                      => \A r \in SearchEnvelopes(o) :
                             /\ SearchOllamaExtract(r) = [ok |-> TRUE, value |-> JsObj(o)]
                             /\ SearchTryCatch(searchInput,
                                               SearchOllamaStep(searchInput, FetchOk(r))).value
                                    = searchResult

\* C17 witness: the endpoint answered with the message.content envelope and the
\* payload it carried was returned as the analysis
C17_Witness ==
    /\ Done /\ input.aiServiceProvider = "ollama" /\ path = "ollama"
    /\ attempts[1] = FetchOk("message" :> ("content" :> JsStr(JSONStringify(JsObj(CompleteObject)))))
    /\ result = CompleteObject

\* C18: every backend call of a run goes to the adapter of the chosen provider with
\* that provider's model: for ollama the local HTTP endpoint with the given model
\* name (qwen3:8b when none is given), for gemini, openai and anthropic the hosted
\* call with googleai/gemini-2.0-flash, openai/gpt-3.5-turbo and
\* anthropic/claude-3-haiku-20240307.
C18_RoutedToChosenAdapter ==
    \A i \in 1..Len(requests) :
        LET p == input.aiServiceProvider
            req == requests[i]
        IN  /\ p \in SupportedProviders
            /\ p = "ollama"
                   => /\ req.adapter = "fetch"
                      /\ req.url = <<"http://localhost:11434/api/generate">>
                      /\ req.model = (IF Has(input, "ollamaModelName")
                                             /\ input["ollamaModelName"] # <<>>
                                      THEN input["ollamaModelName"]
                                      ELSE <<"qwen3:8b">>)
            /\ p # "ollama" => req.adapter = "genkit"
            /\ p = "gemini" => req.model = <<"googleai", "/", "gemini-2.0-flash">>
            /\ p = "openai" => req.model = <<"openai", "/", "gpt-3.5-turbo">>
            /\ p = "anthropic" => req.model = <<"anthropic", "/", "claude-3-haiku-20240307">>

\* C18 witness: both calls of an anthropic run went to the hosted call with the
\* anthropic model
C18_Witness ==
    /\ Len(requests) = 2
    /\ input.aiServiceProvider = "anthropic"
    /\ requests[2] = [adapter |-> "genkit",
                      model |-> <<"anthropic", "/", "claude-3-haiku-20240307">>]

\* C19: a request whose provider is not a supported key makes no backend call and
\* gets the error result: confidenceScore 0, empty ingredientAnalysis, and a
\* summary saying that the provider is unsupported.
C19_UnsupportedFailsFast ==
    /\ (pc # "idle" /\ input.aiServiceProvider \notin {"ollama", "gemini", "openai", "anthropic"})
           => /\ Done
              /\ requests = <<>>
              /\ attempts = <<>>
              /\ inFlight = 0
              /\ path = "error"
              /\ result["confidenceScore"] = 0
              /\ result["ingredientAnalysis"] = <<>>
              /\ StartsWith(result["summary"], <<"AI service error (">>)
              /\ Includes(result["summary"],
                          <<"Unsupported AI service provider: ", input.aiServiceProvider>>)

\* C19 witness: a run with an unsupported provider key has ended without a call
C19_Witness ==
    /\ Done /\ input.aiServiceProvider = "mistral"
    /\ requests = <<>> /\ path = "error"

\* C20: the promise of semanticProductSearch is never rejected, and whenever the
\* provider is unsupported or the backend call failed, the search resolves to a
\* searchResults list of exactly one text, which starts with the error marker.
C20_SearchFailureIsMarked ==
    /\ searchOutcome # "rejected"
    /\ searchPc = "done" => searchOutcome = "resolved"
    /\ ( /\ searchPc = "done"
         /\ \/ searchAttempts = <<>>
            \/ SearchAttemptFailed(searchAttempts[Len(searchAttempts)]) )
           => /\ Has(searchResult, "searchResults")
              /\ Len(searchResult["searchResults"]) = 1
              /\ StartsWith(searchResult["searchResults"][1], <<"AI service error (">>)

\* C21: the prompt sent to the local endpoint is the prompt rendered for a one-word
\* productInfo with that word replaced by the request's productInfo, character for
\* character: the productInfo appears verbatim after 'Product Information: ' and
\* changes nothing else of the prompt.
C21_ProductInfoVerbatim ==
    \A i \in 1..Len(requests) :
        requests[i].adapter = "fetch"
            => /\ requests[i].prompt
                      = Splice(FinalOllamaPrompt(("productInfo" :> <<"PRODUCT">>) @@ input),
                               "PRODUCT", input["productInfo"])
               /\ Includes(requests[i].prompt,
                           <<"Product Information: ">> \o input["productInfo"] \o <<"\n">>)

\* C22: for a hosted provider ollamaModelName has no effect: the same request with
\* any other ollamaModelName, or none, answered by the same backend responses,
\* issues the same calls with the same model identifier and returns the same
\* result, on the error path too.
C22_ModelNameIgnoredWhenHosted ==
    (Done /\ input.aiServiceProvider \in HostedProviders)
        => \A m \in ModelNameChoices :
               RunOf(WithModelName(input, m), attempts)
                   = [requests |-> requests, path |-> path, result |-> result]

\* C22 witness: a hosted request that names an Ollama model ended in the catch block
C22_Witness ==
    /\ Done /\ input.aiServiceProvider \in HostedProviders
    /\ Has(input, "ollamaModelName") /\ input["ollamaModelName"] = <<"llama3">>
    /\ path = "error" /\ attempts # <<>>
    /\ ~Includes(result["summary"], <<"llama3">>)

\* C23: for a productInfo without template syntax, the rendered local prompt has the
\* line "User's Region Hint: <hint>" exactly when userRegionHint is a non-empty
\* string, has no such line when the hint is absent or empty, and in both cases no
\* '{{#if', '{{/if}}' or '{{{...}}}' is left in it.
C23_RegionHintBlock ==
    \A i \in 1..Len(requests) :
        (requests[i].adapter = "fetch" /\ PlainOfSyntax(input["productInfo"]))
            => LET prompt == requests[i].prompt
                   given == Has(input, "userRegionHint") /\ input["userRegionHint"] # <<>>
               IN  /\ given => Includes(prompt, <<"User's Region Hint: ">>
                                                   \o input["userRegionHint"]
                                                   \o <<basePromptTemplate[9]>>)
                   /\ ~given => ~Includes(prompt, <<"User's Region Hint: ">>)
                   /\ PlainOfSyntax(prompt)

\* C24: a JSON answer of the local endpoint in none of the three documented envelope
\* shapes ends the run with the error result (confidenceScore 0, no ingredients),
\* and the summary of that result carries the raw payload of the answer.
C24_UnknownShapeCarriesPayload ==
    ( /\ Done
      /\ input.aiServiceProvider = "ollama"
      /\ UndocumentedShape(attempts[1]) )
        => /\ path = "error"
           /\ ZeroConfidence(result)
           /\ NoIngredients(result)
           /\ Includes(result["summary"], RawPayload(attempts[1]))

\* C25: provided each backend call eventually returns or throws, every invoked
\* generateHealthAnalysis run reaches its terminal state and has then returned a
\* result: the run never loops and never waits forever.
C25_RunTerminates == (pc # "idle") ~> (Done /\ outcome = "resolved")

\* a run that went through the retry after an empty output has terminated
C25_Witness == Done /\ Len(attempts) = 2 /\ attempts[1].kind = "output" /\ attempts[1].output.t = "null"

\* C27: semanticProductSearch invokes its backend at most once per call, whatever
\* the provider, and a first response that is empty, invalid or failing ends the
\* call at once with the one-element error-marker result.
C27_SearchNeverRetries ==
    /\ Len(searchRequests) <= 1
    /\ Len(searchAttempts) <= Len(searchRequests)
    /\ ( /\ searchAttempts # <<>>
         /\ SearchAttemptFailed(searchAttempts[1]) )
           => /\ searchPc = "done"
              /\ Has(searchResult, "searchResults")
              /\ Len(searchResult["searchResults"]) = 1
              /\ StartsWith(searchResult["searchResults"][1], <<"AI service error (">>)

\* the envelope r of the local endpoint carries a response that is a string or has
\* the JavaScript type 'object' (null included)
ResponseDecides(r) == Has(r, "response") /\ TypeOf(r["response"]) \in {"string", "object"}

\* the envelope r without its message
ResponseOnly(r) == ("response" :> r["response"])

\* C28: in the local adapter response takes precedence over message.content: when
\* response is a string or has type 'object' (null included), the run ends as it
\* would for the envelope without message, so an unparsable response string or a
\* null response fails the request even when message.content holds valid JSON.
\* This holds in the analysis flow and in the search flow.
C28_ResponseTakesPrecedence ==
    /\ ( /\ Done /\ input.aiServiceProvider = "ollama"
         /\ \E r \in OllamaResults : ResponseDecides(r) /\ attempts[1] = FetchOk(r) )
           => LET r == attempts[1].json.value.v
              IN  /\ OllamaExtract(r) = OllamaExtract(ResponseOnly(r))
                  /\ TryCatch(input, OllamaStep(input, FetchOk(ResponseOnly(r)))).value = result
                  /\ (\/ r["response"] = JsNull
                      \/ r["response"].t = "string" /\ ~JSONParse(r["response"].v).ok)
                         => path = "error"
    /\ ( /\ searchPc = "done" /\ searchInput.aiServiceProvider = "ollama"
         /\ \E r \in SearchOllamaResults : ResponseDecides(r) /\ searchAttempts[1] = FetchOk(r) )
           => LET r == searchAttempts[1].json.value.v
              IN  /\ SearchOllamaExtract(r) = SearchOllamaExtract(ResponseOnly(r))
                  /\ SearchTryCatch(searchInput,
                                    SearchOllamaStep(searchInput, FetchOk(ResponseOnly(r)))).value
                         = searchResult
                  /\ (\/ r["response"] = JsNull
                      \/ r["response"].t = "string" /\ ~SearchJSONParse(r["response"].v).ok)
                         => StartsWith(searchResult["searchResults"][1], <<"AI service error (">>)

\* C28 witness: the endpoint answered with an unparsable response next to a
\* message.content holding a complete analysis, and the run ended in the error result
C28_Witness ==
    /\ Done /\ input.aiServiceProvider = "ollama" /\ path = "error"
    /\ attempts[1] = FetchOk(("response" :> JsStr(NotJson))
                                 @@ ("message" :> ("content" :> JsStr(JSONStringify(JsObj(CompleteObject))))))

\* the object o is the error-containment result of generateHealthAnalysis
ErrorContainment(o) ==
    /\ Has(o, "summary") /\ StartsWith(o["summary"], ErrorMarker)
    /\ Has(o, "confidenceScore") /\ o["confidenceScore"] = 0
    /\ Has(o, "ingredientAnalysis") /\ o["ingredientAnalysis"] = <<>>

\* the latest handler call of the page has finished, and the generateHealthAnalysis
\* it awaited resolved to the error-containment result
ReceivedErrorResult(handler) ==
    /\ handlers # <<>>
    /\ handlers[Len(handlers)].handler = handler
    /\ handlers[Len(handlers)].at = "finished"
    /\ Has(handlers[Len(handlers)].call, "productInfo")
    /\ handlers[Len(handlers)].got.kind = "resolve"
    /\ ErrorContainment(handlers[Len(handlers)].got.value)

\* C26: whenever generateHealthAnalysis returns its error-containment result to
\* handleSearchOrAnalyze or to handleProductSelectForAnalysis, the page stores the
\* summary in errorMessage and leaves healthAnalysis null, so that no health report
\* is rendered for a failed analysis.
C26_ErrorResultNotRendered ==
    \A handler \in {"handleSearchOrAnalyze", "handleProductSelectForAnalysis"} :
        ReceivedErrorResult(handler)
            => /\ errorMessage = JsStr(handlers[Len(handlers)].got.value["summary"])
               /\ healthAnalysis = JsNull

\* C29: the page never has two handler calls in progress, and while one is in
\* progress the submit button is disabled and no product button can be clicked.
C29_OneRequestInFlight ==
    /\ Cardinality(Running) <= 1
    /\ Running # {} => ~SubmitEnabled /\ ~ProductButtonsEnabled

\* C29 witness: an analysis started from a product button is in progress after the
\* search that listed the product
C29_Witness ==
    /\ Len(handlers) = 2
    /\ handlers[1].at = "finished"
    /\ handlers[2].handler = "handleProductSelectForAnalysis"
    /\ handlers[2].at = "awaitAnalysis"
    /\ isAnalyzing

\* C30: once no handler call is in progress, isLoading and isAnalyzing are both
\* false, whether the handler ended with a result, with a rejected flow call or
\* with a failed image conversion.
C30_FlagsResetAfterHandler == Running = {} => ~isLoading /\ ~isAnalyzing

\* C30 witness: handlers have ended after a rejected flow call, after a failed image
\* conversion and after a resolved analysis
C30_Witness ==
    /\ Len(handlers) = 3
    /\ Running = {}
    /\ \E i \in 1..3 : Has(handlers[i].call, "productInfo") /\ handlers[i].got.kind = "reject"
    /\ \E i \in 1..3 : Has(handlers[i].call, "file") /\ handlers[i].got.kind = "reject"
    /\ \E i \in 1..3 : Has(handlers[i].call, "productInfo") /\ handlers[i].got.kind = "resolve"

====
